---- MODULE Spec2Model ----
(***************************************************************************)
(* Model of the deploy-creation part of casper-client: the retrieval of    *)
(* the session and payment options from the parsed command line            *)
(* (src/src/deploy/creation_common.rs), their resolution into session and  *)
(* payment params, the put-deploy command built on them                    *)
(* (src/src/deploy/put.rs), the conversion of CLValue errors               *)
(* (src/lib/cli/error.rs), the parsing of simple args and the get-block   *)
(* command (src/src/block/get.rs).                                         *)
(***************************************************************************)
EXTENDS Integers, Sequences, FiniteSets, TLC

VARIABLES
    \* the parsed command line and the position of the call or command
    matches, pc,
    \* what the resolvers returned, and the targets made of it
    session_params, payment_params, session_target, payment_target,
    \* put-deploy: the command line, the args read so far, the output, the
    \* exit code, the session account, the calls of put_deploy, run's result
    command_line, args_read, examples_printed, exit_code, session_account,
    put_deploy_calls, run_result,
    \* a simple arg: the raw text, its tokens, the encoded arg
    raw_arg, tokens, typed_arg,
    \* a CLValue error and the CliError made of it
    cl_value_error, cli_error,
    \* get-block: the verbosity level, the calls of get_block, what was printed
    verbosity_level, get_block_calls, printed

resolverVars == <<session_params, payment_params, session_target, payment_target>>

runVars == <<command_line, args_read, examples_printed, exit_code, session_account,
             put_deploy_calls, run_result>>

argVars == <<raw_arg, tokens, typed_arg>>

errorVars == <<cl_value_error, cli_error>>

blockVars == <<verbosity_level, get_block_calls, printed>>

vars == <<matches, pc, resolverVars, runVars, argVars, errorVars, blockVars>>

\* Longest list of repeated --session-arg / --payment-arg values explored.
MaxArgs == 2

-----------------------------------------------------------------------------
(* Option<T>: None is the empty sequence, Some(x) the one-element sequence. *)

None == << >>

Some(x) == <<x>>

OptionOf(S) == {None} \cup {Some(x) : x \in S}

\* Option<&str>::unwrap_or_default(): the empty string when absent.
unwrap_or_default(o) == IF o = None THEN "" ELSE o[1]

\* Option<bool>::unwrap_or_default(): false when absent.
unwrap_or_default_bool(o) == IF o = None THEN FALSE ELSE o[1]

-----------------------------------------------------------------------------
(* The values an ArgMatches can hold for each declared argument.            *)

SessionPathValues == {"session.wasm"}

SessionHashValues == {"hash-01"}

SessionNameValues == {"session_contract"}

SessionPackageHashValues == {"hash-02"}

SessionPackageNameValues == {"session_package"}

SessionEntryPointValues == {"", "call"}

SessionVersionValues == {"1"}

SessionArgsComplexValues == {"session_args.bin"}

PaymentAmountValues == {"2500000000"}

PaymentPathValues == {"payment.wasm"}

PaymentHashValues == {"hash-03"}

PaymentNameValues == {"payment_contract"}

PaymentPackageHashValues == {"hash-04"}

PaymentPackageNameValues == {"payment_package"}

PaymentEntryPointValues == {"", "pay"}

PaymentVersionValues == {"2"}

PaymentArgsComplexValues == {"payment_args.bin"}

ArgSimpleValues == {"a:u32='1'", "b:string='x'"}

\* The values of an Append argument, in command-line order.
ArgSimpleLists == UNION {[1..n -> ArgSimpleValues] : n \in 0..MaxArgs}

\* The session options of an ArgMatches, any combination present or absent.
SessionMatches ==
    [ is_session_transfer  : OptionOf(BOOLEAN),
      session_path         : OptionOf(SessionPathValues),
      session_hash         : OptionOf(SessionHashValues),
      session_name         : OptionOf(SessionNameValues),
      session_package_hash : OptionOf(SessionPackageHashValues),
      session_package_name : OptionOf(SessionPackageNameValues),
      session_entry_point  : OptionOf(SessionEntryPointValues),
      session_version      : OptionOf(SessionVersionValues),
      session_arg          : ArgSimpleLists,
      session_args_complex : OptionOf(SessionArgsComplexValues) ]

\* The payment options of an ArgMatches, any combination present or absent.
PaymentMatches ==
    [ payment_amount       : OptionOf(PaymentAmountValues),
      payment_path         : OptionOf(PaymentPathValues),
      payment_hash         : OptionOf(PaymentHashValues),
      payment_name         : OptionOf(PaymentNameValues),
      payment_package_hash : OptionOf(PaymentPackageHashValues),
      payment_package_name : OptionOf(PaymentPackageNameValues),
      payment_entry_point  : OptionOf(PaymentEntryPointValues),
      payment_version      : OptionOf(PaymentVersionValues),
      payment_arg          : ArgSimpleLists,
      payment_args_complex : OptionOf(PaymentArgsComplexValues) ]

\* No session option given (the SetTrue flag holds its default, false).
NoSessionMatches ==
    [ is_session_transfer  |-> Some(FALSE),
      session_path         |-> None,
      session_hash         |-> None,
      session_name         |-> None,
      session_package_hash |-> None,
      session_package_name |-> None,
      session_entry_point  |-> None,
      session_version      |-> None,
      session_arg          |-> << >>,
      session_args_complex |-> None ]

\* No payment option given.
NoPaymentMatches ==
    [ payment_amount       |-> None,
      payment_path         |-> None,
      payment_hash         |-> None,
      payment_name         |-> None,
      payment_package_hash |-> None,
      payment_package_name |-> None,
      payment_entry_point  |-> None,
      payment_version      |-> None,
      payment_arg          |-> << >>,
      payment_args_complex |-> None ]

\* "--is-session-transfer" alone.
TransferSessionMatches == [NoSessionMatches EXCEPT !.is_session_transfer = Some(TRUE)]

\* "--payment-amount 2500000000" alone.
StandardPaymentMatches == [NoPaymentMatches EXCEPT !.payment_amount = Some("2500000000")]

-----------------------------------------------------------------------------
(* Retrieval of each argument from the ArgMatches.                          *)

is_session_transfer_get(m) == unwrap_or_default_bool(m.is_session_transfer)

session_path_get(m) == m.session_path

\* Fault: the getter reads "session-name" instead of "session-hash".
session_hash_get_reads_name(m) == m.session_name

session_hash_get(m) == m.session_hash

session_name_get(m) == m.session_name

session_package_hash_get(m) == m.session_package_hash

session_package_name_get(m) == m.session_package_name

\* Fault: an absent entry point defaults to "call" instead of the empty string.
session_entry_point_get_default_call(m) ==
    IF m.session_entry_point = None THEN "call" ELSE m.session_entry_point[1]

\* Fault: the getter reads "session-version" instead of "session-entry-point".
session_entry_point_get_reads_version(m) == unwrap_or_default(m.session_version)

session_entry_point_get(m) == unwrap_or_default(m.session_entry_point)

session_version_get(m) == unwrap_or_default(m.session_version)

\* Fault: the values are collected last occurrence first.
arg_simple_session_get_reversed(m) ==
    LET values == m.session_arg
    IN  [i \in 1..Len(values) |-> values[Len(values) + 1 - i]]

\* get_many(..).unwrap_or_default().map(as_str).collect(): one element per
\* occurrence, in the order of the occurrences.
arg_simple_session_get(m) ==
    LET values == m.session_arg
    IN  [i \in 1..Len(values) |-> values[i]]

\* Fault: the getter falls back to "session-entry-point" when no file is given.
args_complex_session_get_reads_entry_point(m) ==
    IF m.session_args_complex = None
    THEN unwrap_or_default(m.session_entry_point)
    ELSE m.session_args_complex[1]

args_complex_session_get(m) == unwrap_or_default(m.session_args_complex)

standard_payment_amount_get(m) == m.payment_amount

payment_path_get(m) == m.payment_path

payment_hash_get(m) == m.payment_hash

payment_name_get(m) == m.payment_name

payment_package_hash_get(m) == m.payment_package_hash

payment_package_name_get(m) == m.payment_package_name

payment_entry_point_get(m) == unwrap_or_default(m.payment_entry_point)

payment_version_get(m) == unwrap_or_default(m.payment_version)

arg_simple_payment_get(m) ==
    LET values == m.payment_arg
    IN  [i \in 1..Len(values) |-> values[i]]

args_complex_payment_get(m) == unwrap_or_default(m.payment_args_complex)

-----------------------------------------------------------------------------
(* SessionStrParams / PaymentStrParams: the value each constructor builds   *)
(* from the arguments it is handed.                                         *)

SessionStrParams_with_transfer(args_simple, args_complex) ==
    [ variant |-> "Transfer",
      args_simple |-> args_simple, args_complex |-> args_complex ]

SessionStrParams_with_path(path, args_simple, args_complex) ==
    [ variant |-> "Path", path |-> path,
      args_simple |-> args_simple, args_complex |-> args_complex ]

SessionStrParams_with_hash(hash, entry_point, args_simple, args_complex) ==
    [ variant |-> "Hash", hash |-> hash, entry_point |-> entry_point,
      args_simple |-> args_simple, args_complex |-> args_complex ]

SessionStrParams_with_name(name, entry_point, args_simple, args_complex) ==
    [ variant |-> "Name", name |-> name, entry_point |-> entry_point,
      args_simple |-> args_simple, args_complex |-> args_complex ]

SessionStrParams_with_package_hash(package_hash, version, entry_point, args_simple, args_complex) ==
    [ variant |-> "PackageHash", package_hash |-> package_hash,
      version |-> version, entry_point |-> entry_point,
      args_simple |-> args_simple, args_complex |-> args_complex ]

SessionStrParams_with_package_name(package_name, version, entry_point, args_simple, args_complex) ==
    [ variant |-> "PackageName", package_name |-> package_name,
      version |-> version, entry_point |-> entry_point,
      args_simple |-> args_simple, args_complex |-> args_complex ]

PaymentStrParams_with_amount(amount) ==
    [ variant |-> "StandardPayment", amount |-> amount ]

PaymentStrParams_with_path(path, args_simple, args_complex) ==
    [ variant |-> "Path", path |-> path,
      args_simple |-> args_simple, args_complex |-> args_complex ]

PaymentStrParams_with_hash(hash, entry_point, args_simple, args_complex) ==
    [ variant |-> "Hash", hash |-> hash, entry_point |-> entry_point,
      args_simple |-> args_simple, args_complex |-> args_complex ]

PaymentStrParams_with_name(name, entry_point, args_simple, args_complex) ==
    [ variant |-> "Name", name |-> name, entry_point |-> entry_point,
      args_simple |-> args_simple, args_complex |-> args_complex ]

PaymentStrParams_with_package_hash(package_hash, version, entry_point, args_simple, args_complex) ==
    [ variant |-> "PackageHash", package_hash |-> package_hash,
      version |-> version, entry_point |-> entry_point,
      args_simple |-> args_simple, args_complex |-> args_complex ]

PaymentStrParams_with_package_name(package_name, version, entry_point, args_simple, args_complex) ==
    [ variant |-> "PackageName", package_name |-> package_name,
      version |-> version, entry_point |-> entry_point,
      args_simple |-> args_simple, args_complex |-> args_complex ]

-----------------------------------------------------------------------------
(* How a call ends: with a value, or in a panic.                            *)

NotCalled == [ outcome |-> "not_called" ]

Returned(value) == [ outcome |-> "returned", value |-> value ]

\* unreachable!(msg) panics with "internal error: entered unreachable code: msg".
Unreachable(msg) == [ outcome |-> "panicked", message |-> msg ]

-----------------------------------------------------------------------------
(* The resolvers.                                                           *)

\* Fault: the stored-contract name is looked at before the path and the hash.
session_str_params_name_first(m) ==
    LET session_args_simple  == arg_simple_session_get(m)
        session_args_complex == args_complex_session_get(m)
        session_entry_point  == session_entry_point_get(m)
        session_version      == session_version_get(m)
    IN  IF is_session_transfer_get(m)
        THEN Returned(SessionStrParams_with_transfer(session_args_simple, session_args_complex))
        ELSE IF session_name_get(m) # None
        THEN Returned(SessionStrParams_with_name(
                 session_name_get(m)[1], session_entry_point,
                 session_args_simple, session_args_complex))
        ELSE IF session_path_get(m) # None
        THEN Returned(SessionStrParams_with_path(
                 session_path_get(m)[1], session_args_simple, session_args_complex))
        ELSE IF session_hash_get(m) # None
        THEN Returned(SessionStrParams_with_hash(
                 session_hash_get(m)[1], session_entry_point,
                 session_args_simple, session_args_complex))
        ELSE IF session_package_hash_get(m) # None
        THEN Returned(SessionStrParams_with_package_hash(
                 session_package_hash_get(m)[1], session_version, session_entry_point,
                 session_args_simple, session_args_complex))
        ELSE IF session_package_name_get(m) # None
        THEN Returned(SessionStrParams_with_package_name(
                 session_package_name_get(m)[1], session_version, session_entry_point,
                 session_args_simple, session_args_complex))
        ELSE Unreachable("clap arg groups and parsing should prevent this")

\* Fault: with no session option present the resolver falls back to a
\* transfer instead of panicking.
session_str_params_default_transfer(m) ==
    LET session_args_simple  == arg_simple_session_get(m)
        session_args_complex == args_complex_session_get(m)
        session_entry_point  == session_entry_point_get(m)
        session_version      == session_version_get(m)
    IN  IF is_session_transfer_get(m)
        THEN Returned(SessionStrParams_with_transfer(session_args_simple, session_args_complex))
        ELSE IF session_path_get(m) # None
        THEN Returned(SessionStrParams_with_path(
                 session_path_get(m)[1], session_args_simple, session_args_complex))
        ELSE IF session_hash_get(m) # None
        THEN Returned(SessionStrParams_with_hash(
                 session_hash_get(m)[1], session_entry_point,
                 session_args_simple, session_args_complex))
        ELSE IF session_name_get(m) # None
        THEN Returned(SessionStrParams_with_name(
                 session_name_get(m)[1], session_entry_point,
                 session_args_simple, session_args_complex))
        ELSE IF session_package_hash_get(m) # None
        THEN Returned(SessionStrParams_with_package_hash(
                 session_package_hash_get(m)[1], session_version, session_entry_point,
                 session_args_simple, session_args_complex))
        ELSE IF session_package_name_get(m) # None
        THEN Returned(SessionStrParams_with_package_name(
                 session_package_name_get(m)[1], session_version, session_entry_point,
                 session_args_simple, session_args_complex))
        ELSE Returned(SessionStrParams_with_transfer(session_args_simple, session_args_complex))

session_str_params(m) ==
    LET session_args_simple  == arg_simple_session_get(m)
        session_args_complex == args_complex_session_get(m)
        session_entry_point  == session_entry_point_get(m)
        session_version      == session_version_get(m)
    IN  IF is_session_transfer_get(m)
        THEN Returned(SessionStrParams_with_transfer(session_args_simple, session_args_complex))
        ELSE IF session_path_get(m) # None
        THEN Returned(SessionStrParams_with_path(
                 session_path_get(m)[1], session_args_simple, session_args_complex))
        ELSE IF session_hash_get(m) # None
        THEN Returned(SessionStrParams_with_hash(
                 session_hash_get(m)[1], session_entry_point,
                 session_args_simple, session_args_complex))
        ELSE IF session_name_get(m) # None
        THEN Returned(SessionStrParams_with_name(
                 session_name_get(m)[1], session_entry_point,
                 session_args_simple, session_args_complex))
        ELSE IF session_package_hash_get(m) # None
        THEN Returned(SessionStrParams_with_package_hash(
                 session_package_hash_get(m)[1], session_version, session_entry_point,
                 session_args_simple, session_args_complex))
        ELSE IF session_package_name_get(m) # None
        THEN Returned(SessionStrParams_with_package_name(
                 session_package_name_get(m)[1], session_version, session_entry_point,
                 session_args_simple, session_args_complex))
        ELSE Unreachable("clap arg groups and parsing should prevent this")

\* Fault: the payment amount is looked at after the path.
payment_str_params_path_first(m) ==
    LET payment_args_simple  == arg_simple_payment_get(m)
        payment_args_complex == args_complex_payment_get(m)
        payment_entry_point  == payment_entry_point_get(m)
        payment_version      == payment_version_get(m)
    IN  IF payment_path_get(m) # None
        THEN Returned(PaymentStrParams_with_path(
                 payment_path_get(m)[1], payment_args_simple, payment_args_complex))
        ELSE IF standard_payment_amount_get(m) # None
        THEN Returned(PaymentStrParams_with_amount(standard_payment_amount_get(m)[1]))
        ELSE IF payment_hash_get(m) # None
        THEN Returned(PaymentStrParams_with_hash(
                 payment_hash_get(m)[1], payment_entry_point,
                 payment_args_simple, payment_args_complex))
        ELSE IF payment_name_get(m) # None
        THEN Returned(PaymentStrParams_with_name(
                 payment_name_get(m)[1], payment_entry_point,
                 payment_args_simple, payment_args_complex))
        ELSE IF payment_package_hash_get(m) # None
        THEN Returned(PaymentStrParams_with_package_hash(
                 payment_package_hash_get(m)[1], payment_version, payment_entry_point,
                 payment_args_simple, payment_args_complex))
        ELSE IF payment_package_name_get(m) # None
        THEN Returned(PaymentStrParams_with_package_name(
                 payment_package_name_get(m)[1], payment_version, payment_entry_point,
                 payment_args_simple, payment_args_complex))
        ELSE Unreachable("clap arg groups and parsing should prevent this")

\* Fault: the session resolver's transfer check is carried over into the
\* payment resolver.
payment_str_params_with_transfer_check(m) ==
    LET payment_args_simple  == arg_simple_payment_get(m)
        payment_args_complex == args_complex_payment_get(m)
        payment_entry_point  == payment_entry_point_get(m)
        payment_version      == payment_version_get(m)
    IN  IF is_session_transfer_get(m)
        THEN Returned(SessionStrParams_with_transfer(payment_args_simple, payment_args_complex))
        ELSE IF standard_payment_amount_get(m) # None
        THEN Returned(PaymentStrParams_with_amount(standard_payment_amount_get(m)[1]))
        ELSE IF payment_path_get(m) # None
        THEN Returned(PaymentStrParams_with_path(
                 payment_path_get(m)[1], payment_args_simple, payment_args_complex))
        ELSE IF payment_hash_get(m) # None
        THEN Returned(PaymentStrParams_with_hash(
                 payment_hash_get(m)[1], payment_entry_point,
                 payment_args_simple, payment_args_complex))
        ELSE IF payment_name_get(m) # None
        THEN Returned(PaymentStrParams_with_name(
                 payment_name_get(m)[1], payment_entry_point,
                 payment_args_simple, payment_args_complex))
        ELSE IF payment_package_hash_get(m) # None
        THEN Returned(PaymentStrParams_with_package_hash(
                 payment_package_hash_get(m)[1], payment_version, payment_entry_point,
                 payment_args_simple, payment_args_complex))
        ELSE IF payment_package_name_get(m) # None
        THEN Returned(PaymentStrParams_with_package_name(
                 payment_package_name_get(m)[1], payment_version, payment_entry_point,
                 payment_args_simple, payment_args_complex))
        ELSE Unreachable("clap arg groups and parsing should prevent this")

\* Fault: the standard payment also carries the payment args.
payment_str_params_amount_with_args(m) ==
    IF standard_payment_amount_get(m) # None
    THEN Returned([ variant      |-> "StandardPayment",
                    amount       |-> standard_payment_amount_get(m)[1],
                    args_simple  |-> arg_simple_payment_get(m),
                    args_complex |-> args_complex_payment_get(m) ])
    ELSE Unreachable("clap arg groups and parsing should prevent this")

payment_str_params(m) ==
    LET payment_args_simple  == arg_simple_payment_get(m)
        payment_args_complex == args_complex_payment_get(m)
        payment_entry_point  == payment_entry_point_get(m)
        payment_version      == payment_version_get(m)
    IN  IF standard_payment_amount_get(m) # None
        THEN Returned(PaymentStrParams_with_amount(standard_payment_amount_get(m)[1]))
        ELSE IF payment_path_get(m) # None
        THEN Returned(PaymentStrParams_with_path(
                 payment_path_get(m)[1], payment_args_simple, payment_args_complex))
        ELSE IF payment_hash_get(m) # None
        THEN Returned(PaymentStrParams_with_hash(
                 payment_hash_get(m)[1], payment_entry_point,
                 payment_args_simple, payment_args_complex))
        ELSE IF payment_name_get(m) # None
        THEN Returned(PaymentStrParams_with_name(
                 payment_name_get(m)[1], payment_entry_point,
                 payment_args_simple, payment_args_complex))
        ELSE IF payment_package_hash_get(m) # None
        THEN Returned(PaymentStrParams_with_package_hash(
                 payment_package_hash_get(m)[1], payment_version, payment_entry_point,
                 payment_args_simple, payment_args_complex))
        ELSE IF payment_package_name_get(m) # None
        THEN Returned(PaymentStrParams_with_package_name(
                 payment_package_name_get(m)[1], payment_version, payment_entry_point,
                 payment_args_simple, payment_args_complex))
        ELSE Unreachable("clap arg groups and parsing should prevent this")

-----------------------------------------------------------------------------
(* From params to execution target: the entry point is required, and must   *)
(* be non-empty, for the stored-contract and stored-package variants.       *)

StoredVariants == {"Hash", "Name", "PackageHash", "PackageName"}

PackageVariants == {"PackageHash", "PackageName"}

Ok(value) == [ outcome |-> "ok", value |-> value ]

MissingRequiredField(context) ==
    [ outcome |-> "error", error |-> "MissingRequiredField", context |-> context ]

ExecutionTarget(params) ==
    CASE params.variant = "Transfer" ->
           [ target |-> "Transfer" ]
      [] params.variant = "StandardPayment" ->
           [ target |-> "StandardPayment", amount |-> params.amount ]
      [] params.variant = "Path" ->
           [ target |-> "InlineCode", path |-> params.path ]
      [] params.variant = "Hash" ->
           [ target |-> "StoredContractByHash", hash |-> params.hash,
             entry_point |-> params.entry_point ]
      [] params.variant = "Name" ->
           [ target |-> "StoredContractByName", name |-> params.name,
             entry_point |-> params.entry_point ]
      [] params.variant = "PackageHash" ->
           [ target |-> "StoredPackageByHash", hash |-> params.package_hash,
             version |-> params.version, entry_point |-> params.entry_point ]
      [] params.variant = "PackageName" ->
           [ target |-> "StoredPackageByName", name |-> params.package_name,
             version |-> params.version, entry_point |-> params.entry_point ]

resolve_session(params) ==
    IF params.variant \in StoredVariants /\ params.entry_point = ""
    THEN MissingRequiredField("session_entry_point")
    ELSE Ok(ExecutionTarget(params))

resolve_payment(params) ==
    IF params.variant \in StoredVariants /\ params.entry_point = ""
    THEN MissingRequiredField("payment_entry_point")
    ELSE Ok(ExecutionTarget(params))

-----------------------------------------------------------------------------
(* The resolvers called directly, on any ArgMatches: one resolver per run,  *)
(* its options in every combination, the other side's options absent or in *)
(* their simplest accepted form.                                            *)

SessionResolverInputs ==
    {s @@ p : s \in SessionMatches, p \in {NoPaymentMatches, StandardPaymentMatches}}

PaymentResolverInputs ==
    {s @@ p : s \in {NoSessionMatches, TransferSessionMatches}, p \in PaymentMatches}

\* No call of a resolver yet.
ResolverIdle ==
    /\ session_params = NotCalled
    /\ payment_params = NotCalled
    /\ session_target = NotCalled
    /\ payment_target = NotCalled

\* No put-deploy command under way.
RunIdle ==
    /\ command_line = None
    /\ args_read = {}
    /\ examples_printed = FALSE
    /\ exit_code = None
    /\ session_account = NotCalled
    /\ put_deploy_calls = << >>
    /\ run_result = NotCalled

\* No simple arg being parsed.
ArgIdle ==
    /\ raw_arg = None
    /\ tokens = NotCalled
    /\ typed_arg = NotCalled

\* No error being converted.
ErrorIdle ==
    /\ cl_value_error = None
    /\ cli_error = NotCalled

BlockIdle ==
    /\ verbosity_level = None
    /\ get_block_calls = << >>
    /\ printed = None

ResolverInit ==
    /\ \/ pc = "session_str_params" /\ matches \in SessionResolverInputs
       \/ pc = "payment_str_params" /\ matches \in PaymentResolverInputs
    /\ ResolverIdle
    /\ RunIdle
    /\ ArgIdle
    /\ ErrorIdle
    /\ BlockIdle

CallSessionStrParams ==
    /\ pc = "session_str_params"
    /\ session_params' = session_str_params(matches)
    /\ pc' = IF session_params'.outcome = "panicked" THEN "panicked" ELSE "resolve_session"
    /\ UNCHANGED <<matches, payment_params, session_target, payment_target>>
    /\ UNCHANGED <<runVars, argVars, errorVars, blockVars>>

CallResolveSession ==
    /\ pc = "resolve_session"
    /\ session_target' = resolve_session(session_params.value)
    /\ pc' = "done"
    /\ UNCHANGED <<matches, session_params, payment_params, payment_target>>
    /\ UNCHANGED <<runVars, argVars, errorVars, blockVars>>

CallPaymentStrParams ==
    /\ pc = "payment_str_params"
    /\ payment_params' = payment_str_params(matches)
    /\ pc' = IF payment_params'.outcome = "panicked" THEN "panicked" ELSE "resolve_payment"
    /\ UNCHANGED <<matches, session_params, session_target, payment_target>>
    /\ UNCHANGED <<runVars, argVars, errorVars, blockVars>>

CallResolvePayment ==
    /\ pc = "resolve_payment"
    /\ payment_target' = resolve_payment(payment_params.value)
    /\ pc' = "done"
    /\ UNCHANGED <<matches, session_params, payment_params, session_target>>
    /\ UNCHANGED <<runVars, argVars, errorVars, blockVars>>

ResolverNext ==
    \/ CallSessionStrParams
    \/ CallResolveSession
    \/ CallPaymentStrParams
    \/ CallResolvePayment

ResolverSpec == ResolverInit /\ [][ResolverNext]_vars

-----------------------------------------------------------------------------
(* The put-deploy command line: the session and payment options, and the    *)
(* options common to the deploy-creating commands.                          *)

SecretKeyValues == {"secret_key.pem"}

ChainNameValues == {"casper-test"}

SessionAccountValues == {"01aa", "public_key.pem", "public_key_hex", "notes.txt"}

\* The files the session-account value may name: the text of each, and the
\* public key it holds when it is a public-key PEM file.
FileSystem ==
    [ path \in {"public_key.pem", "public_key_hex", "notes.txt"} |->
        CASE path = "public_key.pem" ->
               [ text |-> "-----BEGIN PUBLIC KEY-----", pem_key |-> Some("01aa") ]
          [] path = "public_key_hex" ->
               [ text |-> "01aa", pem_key |-> None ]
          [] path = "notes.txt" ->
               [ text |-> "not a key", pem_key |-> None ] ]

\* The texts that parse as a hex-encoded public key.
HexPublicKeys == {"01aa"}

CommonOptions ==
    [ show_arg_examples : {Some(FALSE), Some(TRUE)},
      secret_key        : OptionOf(SecretKeyValues),
      chain_name        : OptionOf(ChainNameValues),
      session_account   : OptionOf(SessionAccountValues) ]

\* "--secret-key secret_key.pem --chain-name casper-test".
CreationOptions ==
    [ show_arg_examples |-> Some(FALSE),
      secret_key        |-> Some("secret_key.pem"),
      chain_name        |-> Some("casper-test"),
      session_account   |-> None ]

\* "--show-arg-examples" alone.
ShowArgExamplesOptions ==
    [ show_arg_examples |-> Some(TRUE),
      secret_key        |-> None,
      chain_name        |-> None,
      session_account   |-> None ]

\* On a command line a SetTrue flag is given (true) or left at its default
\* (false).
SessionOptions == {s \in SessionMatches : s.is_session_transfer # None}

\* The session, payment and common samples a command line is built around.
SessionSamples == {NoSessionMatches, TransferSessionMatches}

PaymentSamples == {NoPaymentMatches, StandardPaymentMatches}

CommonSamples == {CreationOptions, ShowArgExamplesOptions}

\* The command line with session options s, payment options p and common
\* options c.
CommandLine(s, p, c) == s @@ p @@ c

\* The command lines explored: one of the three groups of options in every
\* combination, the other two taken from their samples.
CommandLineGiven ==
    \/ \E s \in SessionOptions, p \in PaymentSamples, c \in CommonSamples :
         command_line = Some(CommandLine(s, p, c))
    \/ \E s \in SessionSamples, p \in PaymentMatches, c \in CommonSamples :
         command_line = Some(CommandLine(s, p, c))
    \/ \E s \in SessionSamples, p \in PaymentSamples, c \in CommonOptions :
         command_line = Some(CommandLine(s, p, c))

-----------------------------------------------------------------------------
(* The rules the command declares to clap, and clap's check of them.        *)

FlagArgs == {"is_session_transfer", "show_arg_examples"}

\* An arg is present when the user gave it: a default value does not count.
IsPresent(cl, arg) ==
    IF arg \in FlagArgs THEN cl[arg] = Some(TRUE) ELSE cl[arg] # None

\* Fault: the "session-args" and "payment-args" groups are not declared.
ArgGroups_no_args_groups ==
    { [ name |-> "session", required |-> TRUE,
        args |-> {"session_path", "session_package_hash", "session_package_name",
                  "is_session_transfer", "session_hash", "session_name",
                  "show_arg_examples"} ],
      [ name |-> "payment", required |-> TRUE,
        args |-> {"payment_amount", "payment_path", "payment_package_hash",
                  "payment_package_name", "payment_hash", "payment_name",
                  "show_arg_examples"} ] }

\* Fault: the "session" and "payment" groups are declared without
\* required(true).
ArgGroups_none_required ==
    { [ name |-> "session", required |-> FALSE,
        args |-> {"session_path", "session_package_hash", "session_package_name",
                  "is_session_transfer", "session_hash", "session_name",
                  "show_arg_examples"} ],
      [ name |-> "payment", required |-> FALSE,
        args |-> {"payment_amount", "payment_path", "payment_package_hash",
                  "payment_package_name", "payment_hash", "payment_name",
                  "show_arg_examples"} ] }

\* ArgGroup::new(name).arg(..)...required(..); no group allows multiple.
ArgGroups ==
    { [ name |-> "session-args", required |-> FALSE,
        args |-> {"session_arg", "session_args_complex"} ],
      [ name |-> "session", required |-> TRUE,
        args |-> {"session_path", "session_package_hash", "session_package_name",
                  "is_session_transfer", "session_hash", "session_name",
                  "show_arg_examples"} ],
      [ name |-> "payment-args", required |-> FALSE,
        args |-> {"payment_arg", "payment_args_complex"} ],
      [ name |-> "payment", required |-> TRUE,
        args |-> {"payment_amount", "payment_path", "payment_package_hash",
                  "payment_package_name", "payment_hash", "payment_name",
                  "show_arg_examples"} ] }

\* Arg::requires: <<arg, the arg it requires>>.  Inside arg_simple::session
\* the path super::session::ARG_NAME names arg_simple::session::ARG_NAME:
\* each of the four args-options requires itself.
Requires ==
    { <<"session_hash", "session_entry_point">>,
      <<"session_name", "session_entry_point">>,
      <<"session_package_hash", "session_entry_point">>,
      <<"session_package_name", "session_entry_point">>,
      <<"payment_hash", "payment_entry_point">>,
      <<"payment_name", "payment_entry_point">>,
      <<"payment_package_hash", "payment_entry_point">>,
      <<"payment_package_name", "payment_entry_point">>,
      <<"session_arg", "session_arg">>,
      <<"session_args_complex", "session_args_complex">>,
      <<"payment_arg", "payment_arg">>,
      <<"payment_args_complex", "payment_args_complex">> }

\* Fault: secret-key and chain-name are declared without
\* required_unless_present.
RequiredUnlessPresent_none == {}

\* Arg::required_unless_present: <<arg, the arg that lifts the requirement>>.
RequiredUnlessPresent ==
    { <<"secret_key", "show_arg_examples">>,
      <<"chain_name", "show_arg_examples">> }

clap_accepts(cl) ==
    /\ \A g \in ArgGroups :
         LET present == {a \in g.args : IsPresent(cl, a)}
         IN  /\ Cardinality(present) <= 1
             /\ g.required => present # {}
    /\ \A r \in Requires : IsPresent(cl, r[1]) => IsPresent(cl, r[2])
    /\ \A r \in RequiredUnlessPresent : IsPresent(cl, r[1]) \/ IsPresent(cl, r[2])

-----------------------------------------------------------------------------
(* The getters of the common options.                                       *)

Err(error) == [ outcome |-> "error", error |-> error ]

Panic(msg) == [ outcome |-> "panicked", message |-> msg ]

\* Fault: the flag is never seen.
show_arg_examples_get_never(m) == FALSE

\* Prints the examples and answers true when the flag is set.
show_arg_examples_get(m) == m.show_arg_examples = Some(TRUE)

secret_key_get(m) ==
    IF m.secret_key = None THEN Panic("should have secret-key arg")
    ELSE Returned(m.secret_key[1])

chain_name_get(m) ==
    IF m.chain_name = None THEN Panic("should have chain-name arg")
    ELSE Returned(m.chain_name[1])

\* PublicKey::from_file(path).map(to_hex): the key of a public-key PEM file.
PublicKey_from_file(path) ==
    IF path \in DOMAIN FileSystem /\ FileSystem[path].pem_key # None
    THEN Ok(FileSystem[path].pem_key[1])
    ELSE Err("io or pem error")

fs_read_to_string(path) ==
    IF path \in DOMAIN FileSystem THEN Ok(FileSystem[path].text) ELSE Err("io error")

PublicKey_from_hex(text) ==
    IF text \in HexPublicKeys THEN Ok(text) ELSE Err("crypto error")

\* Fault: the value is read as a text file before it is tried as a PEM file.
sealed_public_key_get_text_first(m, arg_name, required) ==
    IF m[arg_name] = None /\ required
    THEN Panic("should have arg")
    ELSE LET value == unwrap_or_default(m[arg_name])
         IN  IF fs_read_to_string(value).outcome = "ok"
             THEN IF PublicKey_from_hex(fs_read_to_string(value).value).outcome = "ok"
                  THEN Ok(fs_read_to_string(value).value)
                  ELSE Err([ variant |-> "FailedToParsePublicKey",
                             context |-> "get public key",
                             error   |-> "crypto error" ])
             ELSE IF PublicKey_from_file(value).outcome = "ok"
             THEN Ok(PublicKey_from_file(value).value)
             ELSE Ok(value)

\* Fault: a text file that holds no hex public key is passed over and the
\* raw value returned.
sealed_public_key_get_falls_back(m, arg_name, required) ==
    IF m[arg_name] = None /\ required
    THEN Panic("should have arg")
    ELSE LET value == unwrap_or_default(m[arg_name])
         IN  IF PublicKey_from_file(value).outcome = "ok"
             THEN Ok(PublicKey_from_file(value).value)
             ELSE IF /\ fs_read_to_string(value).outcome = "ok"
                     /\ PublicKey_from_hex(fs_read_to_string(value).value).outcome = "ok"
             THEN Ok(fs_read_to_string(value).value)
             ELSE Ok(value)

sealed_public_key_get(m, arg_name, required) ==
    IF m[arg_name] = None /\ required
    THEN Panic("should have arg")
    ELSE LET value == unwrap_or_default(m[arg_name])
         IN  IF PublicKey_from_file(value).outcome = "ok"
             THEN Ok(PublicKey_from_file(value).value)
             ELSE IF fs_read_to_string(value).outcome = "ok"
             THEN IF PublicKey_from_hex(fs_read_to_string(value).value).outcome = "ok"
                  THEN Ok(fs_read_to_string(value).value)
                  ELSE Err([ variant |-> "FailedToParsePublicKey",
                             context |-> "get public key",
                             error   |-> "crypto error" ])
             ELSE Ok(value)

session_account_get(m) == sealed_public_key_get(m, "session_account", FALSE)

-----------------------------------------------------------------------------
(* PutDeploy::run, from the command line to the result.                     *)

\* What put_deploy can answer: the node's response, or an error.
PutDeployResults ==
    { Ok("deploy-hash"),
      Err([ variant |-> "Core", error |-> "FailedToGetResponse" ]),
      Err([ variant |-> "InvalidArgument", context |-> "session_entry_point" ]) }

\* Fault: an error of put_deploy is turned into an empty success.
map_Success_from_swallowing(result) ==
    IF result.outcome = "ok" THEN Ok([ success |-> result.value ])
    ELSE Ok([ success |-> "" ])

\* Result::map(Success::from): a response is wrapped, an error passed on.
map_Success_from(result) ==
    IF result.outcome = "ok" THEN Ok([ success |-> result.value ]) ELSE result

\* The args session_str_params reads on m, up to the branch it returns in.
SessionArgsRead(m) ==
    {"session_arg", "session_args_complex", "is_session_transfer"}
    \cup (IF is_session_transfer_get(m) THEN {} ELSE
          {"session_path"}
    \cup (IF session_path_get(m) # None THEN {} ELSE
          {"session_entry_point", "session_hash"}
    \cup (IF session_hash_get(m) # None THEN {} ELSE
          {"session_name"}
    \cup (IF session_name_get(m) # None THEN {} ELSE
          {"session_version", "session_package_hash"}
    \cup (IF session_package_hash_get(m) # None THEN {} ELSE
          {"session_package_name"})))))

\* The args payment_str_params reads on m, up to the branch it returns in.
PaymentArgsRead(m) ==
    {"payment_amount"}
    \cup (IF standard_payment_amount_get(m) # None THEN {} ELSE
          {"payment_arg", "payment_args_complex", "payment_path"}
    \cup (IF payment_path_get(m) # None THEN {} ELSE
          {"payment_entry_point", "payment_hash"}
    \cup (IF payment_hash_get(m) # None THEN {} ELSE
          {"payment_name"}
    \cup (IF payment_name_get(m) # None THEN {} ELSE
          {"payment_version", "payment_package_hash"}
    \cup (IF payment_package_hash_get(m) # None THEN {} ELSE
          {"payment_package_name"})))))

Init ==
    /\ pc = "get_matches"
    /\ CommandLineGiven
    /\ matches = None
    /\ args_read = {}
    /\ examples_printed = FALSE
    /\ exit_code = None
    /\ session_account = NotCalled
    /\ put_deploy_calls = << >>
    /\ run_result = NotCalled
    /\ ResolverIdle
    /\ ArgIdle
    /\ ErrorIdle
    /\ BlockIdle

\* clap parses the command line: a command line that breaks a declared rule
\* ends the process with a usage error, any other is handed to run.
GetMatches ==
    /\ pc = "get_matches"
    /\ IF clap_accepts(command_line[1])
       THEN /\ matches' = command_line[1]
            /\ pc' = "show_arg_examples"
            /\ UNCHANGED exit_code
       ELSE /\ pc' = "usage_error"
            /\ exit_code' = Some(2)
            /\ UNCHANGED matches
    /\ UNCHANGED <<command_line, args_read, examples_printed, session_account,
                   put_deploy_calls, run_result>>
    /\ UNCHANGED <<resolverVars, argVars, errorVars, blockVars>>

\* show_arg_examples_and_exit_if_required(matches)
RunShowArgExamples ==
    /\ pc = "show_arg_examples"
    /\ args_read' = args_read \cup {"show_arg_examples"}
    /\ IF show_arg_examples_get(matches)
       THEN /\ examples_printed' = TRUE
            /\ exit_code' = Some(0)
            /\ pc' = "exited"
       ELSE /\ pc' = "read_args"
            /\ UNCHANGED <<examples_printed, exit_code>>
    /\ UNCHANGED <<matches, command_line, session_account, put_deploy_calls, run_result>>
    /\ UNCHANGED <<resolverVars, argVars, errorVars, blockVars>>

\* rpc_id, node_address, verbose, secret_key, timestamp, ttl, chain_name
RunReadArgs ==
    /\ pc = "read_args"
    /\ IF secret_key_get(matches).outcome = "panicked"
       THEN /\ args_read' = args_read \cup {"id", "node_address", "verbose", "secret_key"}
            /\ pc' = "panicked"
       ELSE IF chain_name_get(matches).outcome = "panicked"
       THEN /\ args_read' = args_read \cup {"id", "node_address", "verbose", "secret_key",
                                            "timestamp", "ttl", "chain_name"}
            /\ pc' = "panicked"
       ELSE /\ args_read' = args_read \cup {"id", "node_address", "verbose", "secret_key",
                                            "timestamp", "ttl", "chain_name"}
            /\ pc' = "session_account"
    /\ UNCHANGED <<matches, command_line, examples_printed, exit_code, session_account,
                   put_deploy_calls, run_result>>
    /\ UNCHANGED <<resolverVars, argVars, errorVars, blockVars>>

\* let session_account = common::session_account::get(matches)?;
RunSessionAccount ==
    /\ pc = "session_account"
    /\ args_read' = args_read \cup {"session_account"}
    /\ session_account' = session_account_get(matches)
    /\ IF session_account'.outcome = "error"
       THEN /\ run_result' = session_account'
            /\ pc' = "returned"
       ELSE /\ pc' = "run_session_str_params"
            /\ UNCHANGED run_result
    /\ UNCHANGED <<matches, command_line, examples_printed, exit_code, put_deploy_calls>>
    /\ UNCHANGED <<resolverVars, argVars, errorVars, blockVars>>

\* let session_str_params = creation_common::session_str_params(matches);
RunSessionStrParams ==
    /\ pc = "run_session_str_params"
    /\ args_read' = args_read \cup SessionArgsRead(matches)
    /\ session_params' = session_str_params(matches)
    /\ pc' = IF session_params'.outcome = "panicked"
             THEN "panicked" ELSE "run_payment_str_params"
    /\ UNCHANGED <<matches, command_line, examples_printed, exit_code, session_account,
                   put_deploy_calls, run_result>>
    /\ UNCHANGED <<payment_params, session_target, payment_target, argVars, errorVars, blockVars>>

\* let payment_str_params = creation_common::payment_str_params(matches);
RunPaymentStrParams ==
    /\ pc = "run_payment_str_params"
    /\ args_read' = args_read \cup PaymentArgsRead(matches)
    /\ payment_params' = payment_str_params(matches)
    /\ pc' = IF payment_params'.outcome = "panicked"
             THEN "panicked" ELSE "put_deploy"
    /\ UNCHANGED <<matches, command_line, examples_printed, exit_code, session_account,
                   put_deploy_calls, run_result>>
    /\ UNCHANGED <<session_params, session_target, payment_target, argVars, errorVars, blockVars>>

\* Fault: after an error answer put_deploy is invoked again.
RunPutDeploy_retrying ==
    /\ pc = "put_deploy"
    /\ Len(put_deploy_calls) < 2
    /\ \E answer \in PutDeployResults :
         /\ put_deploy_calls' = Append(put_deploy_calls,
                [ secret_key      |-> secret_key_get(matches).value,
                  chain_name      |-> chain_name_get(matches).value,
                  session_account |-> session_account.value,
                  session         |-> session_params.value,
                  payment         |-> payment_params.value,
                  answer          |-> answer ])
         /\ run_result' = map_Success_from(answer)
         /\ pc' = IF answer.outcome = "error" THEN "put_deploy" ELSE "returned"
    /\ UNCHANGED <<matches, command_line, args_read, examples_printed, exit_code,
                   session_account>>
    /\ UNCHANGED <<resolverVars, argVars, errorVars, blockVars>>

\* casper_client::cli::put_deploy(..).await.map(Success::from)
RunPutDeploy ==
    /\ pc = "put_deploy"
    /\ \E answer \in PutDeployResults :
         /\ put_deploy_calls' = Append(put_deploy_calls,
                [ secret_key      |-> secret_key_get(matches).value,
                  chain_name      |-> chain_name_get(matches).value,
                  session_account |-> session_account.value,
                  session         |-> session_params.value,
                  payment         |-> payment_params.value,
                  answer          |-> answer ])
         /\ run_result' = map_Success_from(answer)
    /\ pc' = "returned"
    /\ UNCHANGED <<matches, command_line, args_read, examples_printed, exit_code,
                   session_account>>
    /\ UNCHANGED <<resolverVars, argVars, errorVars, blockVars>>

Next ==
    \/ GetMatches
    \/ RunShowArgExamples
    \/ RunReadArgs
    \/ RunSessionAccount
    \/ RunSessionStrParams
    \/ RunPaymentStrParams
    \/ RunPutDeploy

Spec == Init /\ [][Next]_vars

-----------------------------------------------------------------------------
(* From a CLValueError to a CliError.                                       *)

\* The variants of bytesrepr::Error.
BytesreprErrors ==
    {"EarlyEndOfStream", "Formatting", "LeftOverBytes", "OutOfMemory",
     "NotRepresentable", "ExceededRecursionDepth"}

\* The simple CLTypes a mismatch may name.
CLTypes ==
    {"Bool", "I32", "I64", "U8", "U32", "U64", "U128", "U256", "U512", "Unit",
     "String", "Key", "URef", "PublicKey"}

CLTypeMismatches == [ expected : CLTypes, found : CLTypes ]

CLValueErrors ==
    {[ variant |-> "Serialization", error |-> e ] : e \in BytesreprErrors}
    \cup {[ variant |-> "Type", mismatch |-> mm ] : mm \in CLTypeMismatches}

\* type_mismatch.to_string(): the text naming the expected and the found type.
CLTypeMismatch_to_string(mm) == <<"Expected ", mm.expected, " but found ", mm.found>>

\* impl From<ToBytesError> for Error
Error_from_ToBytesError(error) == [ variant |-> "ToBytesError", error |-> error ]

\* Fault: a type mismatch is reported as an invalid argument.
CliError_from_CLValueError_invalid_argument(error) ==
    IF error.variant = "Serialization"
    THEN [ variant |-> "Core", error |-> Error_from_ToBytesError(error.error) ]
    ELSE [ variant |-> "InvalidArgument", context |-> "cl_value",
           error |-> CLTypeMismatch_to_string(error.mismatch) ]

\* impl From<CLValueError> for CliError
CliError_from_CLValueError(error) ==
    IF error.variant = "Serialization"
    THEN [ variant |-> "Core", error |-> Error_from_ToBytesError(error.error) ]
    ELSE [ variant |-> "InvalidCLValue",
           message |-> CLTypeMismatch_to_string(error.mismatch) ]

ErrorInit ==
    /\ pc = "cl_value_error"
    /\ cl_value_error \in {Some(e) : e \in CLValueErrors}
    /\ cli_error = NotCalled
    /\ matches = None
    /\ ResolverIdle
    /\ RunIdle
    /\ ArgIdle
    /\ BlockIdle

ConvertCLValueError ==
    /\ pc = "cl_value_error"
    /\ cli_error' = Returned(CliError_from_CLValueError(cl_value_error[1]))
    /\ pc' = "converted"
    /\ UNCHANGED <<matches, cl_value_error, resolverVars, runVars, argVars, blockVars>>

ErrorNext == ConvertCLValueError

ErrorSpec == ErrorInit /\ [][ErrorNext]_vars

-----------------------------------------------------------------------------
(* The simple argument NAME:TYPE='VALUE' or NAME:TYPE=null: tokenizer and   *)
(* value encoder.  A text is a sequence of one-character strings.           *)

Colon == ":"

Equals == "="

Quote == "'"

NullToken == <<"n","u","l","l">>

OptionalPrefix == <<"o","p","t","_">>

\* The type tags with a decode rule here, and the text of each.  The
\* formatted-string types (key, account_hash, uref, public_key) are left
\* out: nothing below reads them.
TypeTagText ==
    [ bool |-> <<"b","o","o","l">>,
      i32 |-> <<"i","3","2">>,
      i64 |-> <<"i","6","4">>,
      u8 |-> <<"u","8">>,
      u32 |-> <<"u","3","2">>,
      u64 |-> <<"u","6","4">>,
      u128 |-> <<"u","1","2","8">>,
      u256 |-> <<"u","2","5","6">>,
      u512 |-> <<"u","5","1","2">>,
      unit |-> <<"u","n","i","t">>,
      string |-> <<"s","t","r","i","n","g">> ]

SimpleTypeTags == DOMAIN TypeTagText

SignedTags == {"i32", "i64"}

FixedUnsignedTags == {"u8", "u32", "u64"}

BigUnsignedTags == {"u128", "u256", "u512"}

NumericTags == SignedTags \cup FixedUnsignedTags \cup BigUnsignedTags

\* The width of each integer type, in bytes.
WidthInBytes ==
    [ i32 |-> 4, i64 |-> 8, u8 |-> 1, u32 |-> 4, u64 |-> 8,
      u128 |-> 16, u256 |-> 32, u512 |-> 64 ]

\* The NAME:TYPE='VALUE' text of a name, a type and a value.
FormatArg(name, type, value) ==
    name \o <<Colon>> \o type \o <<Equals>> \o <<Quote>> \o value \o <<Quote>>

\* The NAME:TYPE=null text of a name and a type.
FormatNullArg(name, type) ==
    name \o <<Colon>> \o type \o <<Equals>> \o NullToken

ArgNames == {<<"a">>, <<"a","m","o","u","n","t">>}

\* The type texts tried: every tag, its optional form, and two unknown tags.
TypeTexts ==
    {TypeTagText[tag] : tag \in SimpleTypeTags}
    \cup {OptionalPrefix \o TypeTagText[tag] : tag \in SimpleTypeTags}
    \cup {<<"u","7">>, <<"o","p","t","_","u","7">>}

\* Values that themselves hold delimiters and quotes.
DelimiterValueTexts ==
    { << >>, <<"a",":","b">>, <<"k","=","v">>, <<"p",":","q","=","r">>,
      <<"i","t","'","s">>, <<"x","=","'","y","'">> }

\* Integer literals at and just past each type's limits, and texts that are
\* no numbers.
NumericValueTexts ==
    { <<"2","5","5">>,
      <<"2","5","6">>,
      <<"4","2","9","4","9","6","7","2","9","5">>,
      <<"4","2","9","4","9","6","7","2","9","6">>,
      <<"1","8","4","4","6","7","4","4","0","7","3","7","0","9","5","5","1",
        "6","1","5">>,
      <<"1","8","4","4","6","7","4","4","0","7","3","7","0","9","5","5","1",
        "6","1","6">>,
      <<"3","4","0","2","8","2","3","6","6","9","2","0","9","3","8","4","6",
        "3","4","6","3","3","7","4","6","0","7","4","3","1","7","6","8","2",
        "1","1","4","5","5">>,
      <<"3","4","0","2","8","2","3","6","6","9","2","0","9","3","8","4","6",
        "3","4","6","3","3","7","4","6","0","7","4","3","1","7","6","8","2",
        "1","1","4","5","6">>,
      <<"1","1","5","7","9","2","0","8","9","2","3","7","3","1","6","1","9",
        "5","4","2","3","5","7","0","9","8","5","0","0","8","6","8","7","9",
        "0","7","8","5","3","2","6","9","9","8","4","6","6","5","6","4","0",
        "5","6","4","0","3","9","4","5","7","5","8","4","0","0","7","9","1",
        "3","1","2","9","6","3","9","9","3","5">>,
      <<"1","1","5","7","9","2","0","8","9","2","3","7","3","1","6","1","9",
        "5","4","2","3","5","7","0","9","8","5","0","0","8","6","8","7","9",
        "0","7","8","5","3","2","6","9","9","8","4","6","6","5","6","4","0",
        "5","6","4","0","3","9","4","5","7","5","8","4","0","0","7","9","1",
        "3","1","2","9","6","3","9","9","3","6">>,
      <<"1","3","4","0","7","8","0","7","9","2","9","9","4","2","5","9","7",
        "0","9","9","5","7","4","0","2","4","9","9","8","2","0","5","8","4",
        "6","1","2","7","4","7","9","3","6","5","8","2","0","5","9","2","3",
        "9","3","3","7","7","7","2","3","5","6","1","4","4","3","7","2","1",
        "7","6","4","0","3","0","0","7","3","5","4","6","9","7","6","8","0",
        "1","8","7","4","2","9","8","1","6","6","9","0","3","4","2","7","6",
        "9","0","0","3","1","8","5","8","1","8","6","4","8","6","0","5","0",
        "8","5","3","7","5","3","8","8","2","8","1","1","9","4","6","5","6",
        "9","9","4","6","4","3","3","6","4","9","0","0","6","0","8","4","0",
        "9","5">>,
      <<"1","3","4","0","7","8","0","7","9","2","9","9","4","2","5","9","7",
        "0","9","9","5","7","4","0","2","4","9","9","8","2","0","5","8","4",
        "6","1","2","7","4","7","9","3","6","5","8","2","0","5","9","2","3",
        "9","3","3","7","7","7","2","3","5","6","1","4","4","3","7","2","1",
        "7","6","4","0","3","0","0","7","3","5","4","6","9","7","6","8","0",
        "1","8","7","4","2","9","8","1","6","6","9","0","3","4","2","7","6",
        "9","0","0","3","1","8","5","8","1","8","6","4","8","6","0","5","0",
        "8","5","3","7","5","3","8","8","2","8","1","1","9","4","6","5","6",
        "9","9","4","6","4","3","3","6","4","9","0","0","6","0","8","4","0",
        "9","6">>,
      <<"2","1","4","7","4","8","3","6","4","7">>,
      <<"2","1","4","7","4","8","3","6","4","8">>,
      <<"9","2","2","3","3","7","2","0","3","6","8","5","4","7","7","5","8",
        "0","7">>,
      <<"9","2","2","3","3","7","2","0","3","6","8","5","4","7","7","5","8",
        "0","8">>,
      <<"-","2","1","4","7","4","8","3","6","4","8">>,
      <<"-","2","1","4","7","4","8","3","6","4","9">>,
      <<"-","9","2","2","3","3","7","2","0","3","6","8","5","4","7","7","5",
        "8","0","8">>,
      <<"-","9","2","2","3","3","7","2","0","3","6","8","5","4","7","7","5",
        "8","0","9">>,
      <<"0">>,
      <<"1">>,
      <<"0","0","7">>,
      <<"0","0","2","5","6">>,
      <<"-","1">>,
      <<"-","0">>,
      <<"1","0","0","0","0","0","0">>,
      <<"1","2","a">>,
      <<"-">>,
      <<"m","a","y","b","e">>,
      <<"t","r","u","e">>,
      <<"f","a","l","s","e">> }

ValueTexts == DelimiterValueTexts \cup NumericValueTexts

\* Fault: the last index of character c in text.
IndexOf_last(text, c) ==
    IF \E i \in 1..Len(text) : text[i] = c
    THEN CHOOSE i \in 1..Len(text) :
            text[i] = c /\ \A j \in (i + 1)..Len(text) : text[j] # c
    ELSE 0

\* The first index of character c in text, 0 when it does not occur.
IndexOf(text, c) ==
    IF \E i \in 1..Len(text) : text[i] = c
    THEN CHOOSE i \in 1..Len(text) :
            text[i] = c /\ \A j \in 1..(i - 1) : text[j] # c
    ELSE 0

MalformedArgument(raw) == Err([ kind |-> "MalformedArgument", raw |-> raw ])

\* Fault: an opening quote alone is taken as a quoted value.
IsQuoted_open_only(text) == Len(text) >= 1 /\ text[1] = Quote

\* QUOTED_VALUE: delimited by single quotes.
IsQuoted(text) == Len(text) >= 2 /\ text[1] = Quote /\ text[Len(text)] = Quote

\* tokenize(raw) -> Result<(name, type_tag_str, value_str), ParseError>
tokenize(raw) ==
    LET colon  == IndexOf(raw, Colon)
        equals == IndexOf(raw, Equals)
    IN  IF colon = 0 \/ equals = 0 \/ equals < colon
        THEN MalformedArgument(raw)
        ELSE LET name == SubSeq(raw, 1, colon - 1)
                 type == SubSeq(raw, colon + 1, equals - 1)
                 rest == SubSeq(raw, equals + 1, Len(raw))
             IN  IF rest = NullToken
                 THEN Ok([ name |-> name, type_tag_str |-> type,
                           value_str |-> rest, is_null |-> TRUE ])
                 ELSE IF IsQuoted(rest)
                 THEN Ok([ name |-> name, type_tag_str |-> type,
                           value_str |-> SubSeq(rest, 2, Len(rest) - 1),
                           is_null |-> FALSE ])
                 ELSE MalformedArgument(raw)

InvalidNumber(text) == Err([ kind |-> "InvalidNumber", value |-> text ])

UnknownType(tag) == Err([ kind |-> "UnknownType", tag |-> tag ])

Digits == <<"0", "1", "2", "3", "4", "5", "6", "7", "8", "9">>

IsDigit(c) == \E i \in DOMAIN Digits : Digits[i] = c

DigitValue(c) == (CHOOSE i \in DOMAIN Digits : Digits[i] = c) - 1

\* An integer's magnitude is a little-endian sequence of limbs below
\* LimbBase with no leading zero limb (zero is the empty sequence).
LimbBase == 256

\* Digits are taken ChunkDigits at a time: a limb times 10^ChunkDigits plus
\* a carry stays a machine integer.
ChunkDigits == 6

PowerOfTen == <<10, 100, 1000, 10000, 100000, 1000000>>

Min(a, b) == IF a <= b THEN a ELSE b

\* The value of the digits text[i..to], after acc.
RECURSIVE chunk_value(_, _, _, _)
chunk_value(text, i, to, acc) ==
    IF i > to THEN acc
    ELSE chunk_value(text, i + 1, to, acc * 10 + DigitValue(text[i]))

\* limbs * multiplier + carry
RECURSIVE mul_add(_, _, _)
mul_add(limbs, multiplier, carry) ==
    IF limbs = << >>
    THEN IF carry = 0 THEN << >>
         ELSE <<carry % LimbBase>> \o mul_add(<< >>, multiplier, carry \div LimbBase)
    ELSE LET v == Head(limbs) * multiplier + carry
         IN  <<v % LimbBase>> \o mul_add(Tail(limbs), multiplier, v \div LimbBase)

\* acc with the digits text[i..to] appended.
append_digits(acc, text, i, to) ==
    mul_add(acc, PowerOfTen[to - i + 1], chunk_value(text, i, to, 0))

\* Fault: a magnitude wider than the type is let through (and cut to the
\* type's width further on).
FitsUnsigned_truncating(limbs, tag) == TRUE

\* The magnitude fits the unsigned type tag.
FitsUnsigned(limbs, tag) == Len(limbs) <= WidthInBytes[tag]

\* The magnitude, negated when negative, fits the signed type tag.
FitsSigned(limbs, negative, tag) ==
    LET width == WidthInBytes[tag]
    IN  \/ Len(limbs) < width
        \/ /\ Len(limbs) = width
           /\ \/ limbs[width] < LimbBase \div 2
              \/ /\ negative
                 /\ limbs[width] = LimbBase \div 2
                 /\ \A i \in 1..(width - 1) : limbs[i] = 0

\* Base-10 parse of the digits of text from index i on, with overflow
\* detection as the value grows: i32, i64, u8, u32, u64.
RECURSIVE parse_fixed(_, _, _, _, _)
parse_fixed(text, i, acc, negative, tag) ==
    IF i > Len(text) THEN Ok([ negative |-> negative /\ acc # << >>, magnitude |-> acc ])
    ELSE LET to   == Min(i + ChunkDigits - 1, Len(text))
             next == append_digits(acc, text, i, to)
         IN  IF tag \in SignedTags /\ ~FitsSigned(next, negative, tag)
             THEN InvalidNumber(text)
             ELSE IF tag \notin SignedTags /\ ~FitsUnsigned(next, tag)
             THEN InvalidNumber(text)
             ELSE parse_fixed(text, to + 1, next, negative, tag)

\* Arbitrary-precision decimal parse of the digits of text from index i on.
RECURSIVE parse_decimal(_, _, _)
parse_decimal(text, i, acc) ==
    IF i > Len(text) THEN acc
    ELSE LET to == Min(i + ChunkDigits - 1, Len(text))
         IN  parse_decimal(text, to + 1, append_digits(acc, text, i, to))

\* u128, u256, u512: parsed as arbitrary-precision decimal, then
\* range-checked against the type's width.
parse_big(text, tag) ==
    LET parsed == parse_decimal(text, 1, << >>)
    IN  IF ~FitsUnsigned(parsed, tag) THEN InvalidNumber(text)
        ELSE Ok([ negative |-> FALSE, magnitude |-> parsed ])

\* A sign is read for the signed types only; every other character must be
\* a digit, and there must be one.
parse_integer(text, tag) ==
    LET negative == tag \in SignedTags /\ text # << >> /\ Head(text) = "-"
        first    == IF negative THEN 2 ELSE 1
    IN  IF first > Len(text) \/ \E i \in first..Len(text) : ~IsDigit(text[i])
        THEN InvalidNumber(text)
        ELSE IF tag \in BigUnsignedTags THEN parse_big(text, tag)
        ELSE parse_fixed(text, first, << >>, negative, tag)

\* The decode rule of each type tag.  A boolean or unit value that fails
\* its rule is reported with the kind of a failed value parse.
decode_value(tag, text) ==
    CASE tag \in NumericTags -> parse_integer(text, tag)
      [] tag = "bool"   -> IF text = <<"t","r","u","e">> THEN Ok([ bool |-> TRUE ])
                           ELSE IF text = <<"f","a","l","s","e">> THEN Ok([ bool |-> FALSE ])
                           ELSE InvalidNumber(text)
      [] tag = "unit"   -> IF text = << >> THEN Ok([ unit |-> << >> ])
                           ELSE InvalidNumber(text)
      [] tag = "string" -> Ok([ string |-> text ])

\* Type tag resolution: exact match against the closed set; the optional
\* form of a tag is the tag after the optional prefix.
ResolveTypeTag(type_tag_str) ==
    IF \E tag \in SimpleTypeTags : TypeTagText[tag] = type_tag_str
    THEN Some([ optional |-> FALSE,
                tag |-> CHOOSE tag \in SimpleTypeTags : TypeTagText[tag] = type_tag_str ])
    ELSE IF \E tag \in SimpleTypeTags : OptionalPrefix \o TypeTagText[tag] = type_tag_str
    THEN Some([ optional |-> TRUE,
                tag |-> CHOOSE tag \in SimpleTypeTags :
                           OptionalPrefix \o TypeTagText[tag] = type_tag_str ])
    ELSE None

NoneValue == [ option |-> "none" ]

SomeValue(value) == [ option |-> "some", value |-> value ]

\* Fault: a value the inner rule rejects becomes none.
wrap_optional_none_on_error(inner) ==
    IF inner.outcome = "ok" THEN Ok(SomeValue(inner.value)) ELSE Ok(NoneValue)

\* The inner rule's value wrapped as some; the inner rule's error as it is.
wrap_optional(inner) ==
    IF inner.outcome = "ok" THEN Ok(SomeValue(inner.value)) ELSE inner

TypedArg(name, type_tag, value) ==
    [ name |-> name, type_tag |-> type_tag, value |-> value ]

\* encode(type_tag_str, value_str) -> Result<TypedArg, ArgEncodeError>, on
\* a tokenized triple; null is the unquoted token, not a quoted 'null'.
encode(token) ==
    LET resolved == ResolveTypeTag(token.type_tag_str)
    IN  IF resolved = None THEN UnknownType(token.type_tag_str)
        ELSE LET type_tag == resolved[1]
                 value == IF type_tag.optional
                          THEN IF token.is_null THEN Ok(NoneValue)
                               ELSE wrap_optional(decode_value(type_tag.tag, token.value_str))
                          ELSE decode_value(type_tag.tag, token.value_str)
             IN  IF value.outcome = "ok"
                 THEN Ok(TypedArg(token.name, type_tag, value.value))
                 ELSE value

\* The ways a raw argument goes wrong.
MalformedShapes ==
    {"no_colon", "no_equals", "no_closing_quote", "no_opening_quote",
     "lone_quote", "unquoted"}

MalformedArg(shape, name, type, value) ==
    CASE shape = "no_colon" ->
           name \o type \o <<Equals>> \o <<Quote>> \o value \o <<Quote>>
      [] shape = "no_equals" ->
           name \o <<Colon>> \o type \o <<Quote>> \o value \o <<Quote>>
      [] shape = "no_closing_quote" ->
           name \o <<Colon>> \o type \o <<Equals>> \o <<Quote>> \o value
      [] shape = "no_opening_quote" ->
           name \o <<Colon>> \o type \o <<Equals>> \o value \o <<Quote>>
      [] shape = "lone_quote" ->
           name \o <<Colon>> \o type \o <<Equals>> \o <<Quote>>
      [] shape = "unquoted" ->
           name \o <<Colon>> \o type \o <<Equals>> \o <<"1">> \o value

ArgInit ==
    /\ pc = "tokenize"
    /\ \/ \E name \in ArgNames, type \in TypeTexts, value \in ValueTexts :
            raw_arg = Some(FormatArg(name, type, value))
       \/ \E name \in ArgNames, type \in TypeTexts :
            raw_arg = Some(FormatNullArg(name, type))
       \/ \E shape \in MalformedShapes, name \in ArgNames, type \in TypeTexts,
             value \in DelimiterValueTexts :
            raw_arg = Some(MalformedArg(shape, name, type, value))
    /\ tokens = NotCalled
    /\ typed_arg = NotCalled
    /\ matches = None
    /\ ResolverIdle
    /\ RunIdle
    /\ ErrorIdle
    /\ BlockIdle

Tokenize ==
    /\ pc = "tokenize"
    /\ tokens' = tokenize(raw_arg[1])
    /\ pc' = IF tokens'.outcome = "ok" THEN "encode" ELSE "arg_failed"
    /\ UNCHANGED <<matches, raw_arg, typed_arg, resolverVars, runVars, errorVars, blockVars>>

Encode ==
    /\ pc = "encode"
    /\ typed_arg' = encode(tokens.value)
    /\ pc' = "arg_done"
    /\ UNCHANGED <<matches, raw_arg, tokens, resolverVars, runVars, errorVars, blockVars>>

ArgNext ==
    \/ Tokenize
    \/ Encode

ArgSpec == ArgInit /\ [][ArgNext]_vars

-----------------------------------------------------------------------------
(* GetBlock::run: the get-block command.                                    *)

\* Most occurrences of -v explored.
MaxVerbose == 3

\* The ArgMatches of get-block: the occurrences of -v, the RPC id, the node
\* address (which has a default value) and the block identifier.
GetBlockMatches ==
    [ verbose          : 0..MaxVerbose,
      id               : OptionOf({"1", "rpc-a"}),
      node_address     : {Some("http://localhost:7777"), Some("http://node:7777")},
      block_identifier : OptionOf({"hash-0a", "42"}) ]

\* verbose::get: the occurrences of the arg when the command declares it.
verbose_get(m) == IF "verbose" \in DOMAIN m THEN m.verbose ELSE 0

rpc_id_get(m) == unwrap_or_default(m.id)

node_address_get(m) ==
    IF m.node_address = None THEN Panic("should have node-address arg")
    ELSE Returned(m.node_address[1])

block_identifier_get(m) == unwrap_or_default(m.block_identifier)

\* What casper_client::get_block can answer.
GetBlockResults ==
    { Ok("block"), Ok("no such block"), Err("FailedToGetResponse") }

\* Fault: every level is raised by one.
raise_verbosity_always(level) == level + 1

\* if verbosity_level == 0 { verbosity_level += 1 }
raise_verbosity(level) == IF level = 0 THEN level + 1 ELSE level

GetBlockInit ==
    /\ pc = "get_block_read_args"
    /\ matches \in GetBlockMatches
    /\ BlockIdle
    /\ ResolverIdle
    /\ RunIdle
    /\ ArgIdle
    /\ ErrorIdle

\* let mut verbosity_level = common::verbose::get(matches); and the other
\* three getters.
GetBlockReadArgs ==
    /\ pc = "get_block_read_args"
    /\ verbosity_level' = Some(verbose_get(matches))
    /\ pc' = IF node_address_get(matches).outcome = "panicked"
             THEN "panicked" ELSE "get_block_request"
    /\ UNCHANGED <<matches, get_block_calls, printed>>
    /\ UNCHANGED <<resolverVars, runVars, argVars, errorVars>>

\* casper_client::get_block(..).unwrap_or_else(|error| panic!(..))
GetBlockRequest ==
    /\ pc = "get_block_request"
    /\ \E answer \in GetBlockResults :
         /\ get_block_calls' = Append(get_block_calls,
                [ maybe_rpc_id    |-> rpc_id_get(matches),
                  node_address    |-> node_address_get(matches).value,
                  verbosity_level |-> verbosity_level[1],
                  maybe_block_id  |-> block_identifier_get(matches),
                  answer          |-> answer ])
         /\ pc' = IF answer.outcome = "error" THEN "panicked" ELSE "get_block_raise"
    /\ UNCHANGED <<matches, verbosity_level, printed>>
    /\ UNCHANGED <<resolverVars, runVars, argVars, errorVars>>

\* if verbosity_level == 0 { verbosity_level += 1 }
GetBlockRaiseVerbosity ==
    /\ pc = "get_block_raise"
    /\ verbosity_level' = Some(raise_verbosity(verbosity_level[1]))
    /\ pc' = "get_block_print"
    /\ UNCHANGED <<matches, get_block_calls, printed>>
    /\ UNCHANGED <<resolverVars, runVars, argVars, errorVars>>

\* casper_client::pretty_print_at_level(&response, verbosity_level)
GetBlockPrint ==
    /\ pc = "get_block_print"
    /\ printed' = Some([ response |-> get_block_calls[1].answer.value,
                         level    |-> verbosity_level[1] ])
    /\ pc' = "get_block_done"
    /\ UNCHANGED <<matches, verbosity_level, get_block_calls>>
    /\ UNCHANGED <<resolverVars, runVars, argVars, errorVars>>

GetBlockNext ==
    \/ GetBlockReadArgs
    \/ GetBlockRequest
    \/ GetBlockRaiseVerbosity
    \/ GetBlockPrint

GetBlockSpec == GetBlockInit /\ [][GetBlockNext]_vars

-----------------------------------------------------------------------------
(* The properties.  Presence is read off the ArgMatches itself, not through *)
(* the getters.                                                             *)

SessionOrder == <<"Transfer", "Path", "Hash", "Name", "PackageHash", "PackageName">>

PaymentOrder == <<"StandardPayment", "Path", "Hash", "Name", "PackageHash", "PackageName">>

SessionSource(m) ==
    <<m.is_session_transfer = Some(TRUE), m.session_path # None, m.session_hash # None,
      m.session_name # None, m.session_package_hash # None, m.session_package_name # None>>

PaymentSource(m) ==
    <<m.payment_amount # None, m.payment_path # None, m.payment_hash # None,
      m.payment_name # None, m.payment_package_hash # None, m.payment_package_name # None>>

PresentIn(source) == {i \in 1..Len(source) : source[i]}

Earliest(S) == CHOOSE i \in S : \A j \in S : i <= j

SessionCalled == session_params.outcome # "not_called"

PaymentCalled == payment_params.outcome # "not_called"

SessionReturned == session_params.outcome = "returned"

PaymentReturned == payment_params.outcome = "returned"

IsConflictingArguments(result) ==
    result.outcome = "error" /\ result.error = "ConflictingArguments"

\* C1: with at least one session source field present, session_str_params
\* returns the variant of the earliest present field in the order transfer,
\* path, hash, name, package-hash, package-name.
C1_SessionPriorityOrder ==
    (SessionCalled /\ PresentIn(SessionSource(matches)) # {}) =>
        /\ SessionReturned
        /\ session_params.value.variant =
               SessionOrder[Earliest(PresentIn(SessionSource(matches)))]

\* A call with path, name and package-name all present and no transfer flag
\* returned the path variant.
C1_Witness ==
    /\ SessionReturned
    /\ PresentIn(SessionSource(matches)) = {2, 4, 6}
    /\ session_params.value.variant = "Path"

\* C2: with at least one payment source field present, payment_str_params
\* returns the variant of the earliest present field in the order amount,
\* path, hash, name, package-hash, package-name; a present amount always
\* gives the standard-payment variant.
C2_PaymentPriorityOrder ==
    /\ (PaymentCalled /\ PresentIn(PaymentSource(matches)) # {}) =>
        /\ PaymentReturned
        /\ payment_params.value.variant =
               PaymentOrder[Earliest(PresentIn(PaymentSource(matches)))]
    /\ (PaymentCalled /\ matches.payment_amount # None) =>
        /\ PaymentReturned
        /\ payment_params.value.variant = "StandardPayment"

\* A call with the amount, the path and the hash present returned the
\* standard-payment variant.
C2_Witness ==
    /\ PaymentReturned
    /\ PresentIn(PaymentSource(matches)) = {1, 2, 3}
    /\ payment_params.value.variant = "StandardPayment"

\* The value the variant of params carries for its source field.
CarriedValue(params) ==
    CASE params.variant = "Transfer"        -> Some(TRUE)
      [] params.variant = "StandardPayment" -> Some(params.amount)
      [] params.variant = "Path"            -> Some(params.path)
      [] params.variant = "Hash"            -> Some(params.hash)
      [] params.variant = "Name"            -> Some(params.name)
      [] params.variant = "PackageHash"     -> Some(params.package_hash)
      [] params.variant = "PackageName"     -> Some(params.package_name)

SessionField(m) ==
    <<m.is_session_transfer, m.session_path, m.session_hash,
      m.session_name, m.session_package_hash, m.session_package_name>>

PaymentField(m) ==
    <<m.payment_amount, m.payment_path, m.payment_hash,
      m.payment_name, m.payment_package_hash, m.payment_package_name>>

\* C3: with exactly one source field present, the resolver returns the
\* variant of that field, carrying that field's value (session and payment).
C3_ExactlyOnePresent ==
    /\ \A i \in 1..Len(SessionOrder) :
         (SessionCalled /\ PresentIn(SessionSource(matches)) = {i}) =>
            /\ SessionReturned
            /\ session_params.value.variant = SessionOrder[i]
            /\ CarriedValue(session_params.value) = SessionField(matches)[i]
    /\ \A i \in 1..Len(PaymentOrder) :
         (PaymentCalled /\ PresentIn(PaymentSource(matches)) = {i}) =>
            /\ PaymentReturned
            /\ payment_params.value.variant = PaymentOrder[i]
            /\ CarriedValue(payment_params.value) = PaymentField(matches)[i]

\* A call with only the session hash present returned the hash variant
\* with that hash.
C3_Witness ==
    /\ SessionReturned
    /\ PresentIn(SessionSource(matches)) = {3}
    /\ session_params.value.variant = "Hash"
    /\ session_params.value.hash = "hash-01"

\* C4 (as claimed): with two or more source fields present, resolution fails
\* with ConflictingArguments and yields no target (session and payment).
C4_ConflictingArguments ==
    /\ (SessionCalled /\ Cardinality(PresentIn(SessionSource(matches))) >= 2) =>
        /\ IsConflictingArguments(session_params)
        /\ session_target = NotCalled
    /\ (PaymentCalled /\ Cardinality(PresentIn(PaymentSource(matches))) >= 2) =>
        /\ IsConflictingArguments(payment_params)
        /\ payment_target = NotCalled

\* C5: with no source field present, the resolver panics: it returns
\* nothing, its outcome is not ConflictingArguments, and no target is ever
\* produced (session and payment).
C5_NonePresentPanics ==
    /\ (SessionCalled /\ PresentIn(SessionSource(matches)) = {}) =>
        /\ session_params.outcome = "panicked"
        /\ ~IsConflictingArguments(session_params)
        /\ session_target = NotCalled
        /\ pc = "panicked"
    /\ (PaymentCalled /\ PresentIn(PaymentSource(matches)) = {}) =>
        /\ payment_params.outcome = "panicked"
        /\ ~IsConflictingArguments(payment_params)
        /\ payment_target = NotCalled
        /\ pc = "panicked"

\* The session resolver was called with nothing but an entry point, a
\* version and args present, and panicked.
C5_Witness ==
    /\ session_params.outcome = "panicked"
    /\ PresentIn(SessionSource(matches)) = {}
    /\ matches.session_entry_point = Some("call")
    /\ matches.session_version # None
    /\ matches.session_arg # << >>

C7_EntryPointIgnored ==
    /\ (SessionReturned /\ session_params.value.variant \in {"Transfer", "Path"}) =>
        \A ep \in OptionOf(SessionEntryPointValues) :
            session_str_params([matches EXCEPT !.session_entry_point = ep]) = session_params
    /\ (PaymentReturned /\ payment_params.value.variant \in {"StandardPayment", "Path"}) =>
        \A ep \in OptionOf(PaymentEntryPointValues) :
            payment_str_params([matches EXCEPT !.payment_entry_point = ep]) = payment_params

\* The path variant was returned for options that name an entry point.
C7_Witness ==
    /\ SessionReturned
    /\ session_params.value.variant = "Path"
    /\ matches.session_entry_point = Some("call")

\* C8: for every variant but the two package variants a present version is
\* no error and has no effect: the same options with the version absent or
\* present resolve to the same returned params.
C8_VersionIgnored ==
    /\ (SessionCalled /\ PresentIn(SessionSource(matches)) # {}
            /\ Earliest(PresentIn(SessionSource(matches))) <= 4) =>
        /\ SessionReturned
        /\ session_params.value.variant \notin PackageVariants
        /\ \A v \in OptionOf(SessionVersionValues) :
            session_str_params([matches EXCEPT !.session_version = v]) = session_params
    /\ (PaymentCalled /\ PresentIn(PaymentSource(matches)) # {}
            /\ Earliest(PresentIn(PaymentSource(matches))) <= 4) =>
        /\ PaymentReturned
        /\ payment_params.value.variant \notin PackageVariants
        /\ \A v \in OptionOf(PaymentVersionValues) :
            payment_str_params([matches EXCEPT !.payment_version = v]) = payment_params

\* The hash variant was returned for options that give a version.
C8_Witness ==
    /\ SessionReturned
    /\ session_params.value.variant = "Hash"
    /\ matches.session_version = Some("1")

\* C9: session resolution never yields the standard-payment variant and
\* payment resolution never yields the transfer variant, as params or as
\* target.
C9_TransferSessionOnly ==
    /\ SessionReturned => session_params.value.variant # "StandardPayment"
    /\ PaymentReturned => payment_params.value.variant # "Transfer"
    /\ session_target.outcome = "ok" => session_target.value.target # "StandardPayment"
    /\ payment_target.outcome = "ok" => payment_target.value.target # "Transfer"

\* The payment resolver returned the standard payment for a command line
\* that also sets the transfer flag.
C9_Witness ==
    /\ PaymentReturned
    /\ matches.is_session_transfer = Some(TRUE)
    /\ payment_params.value.variant = "StandardPayment"

\* C10: the simple args handed to the selected variant are the input's, the
\* same elements in the same order, for every variant but standard payment.
C10_ArgOrderPreserved ==
    /\ SessionReturned => session_params.value.args_simple = matches.session_arg
    /\ (PaymentReturned /\ payment_params.value.variant # "StandardPayment") =>
           payment_params.value.args_simple = matches.payment_arg

\* Two different session args, given in descending order, were handed on in
\* that order.
C10_Witness ==
    /\ SessionReturned
    /\ matches.session_arg = <<"b:string='x'", "a:u32='1'">>
    /\ session_params.value.args_simple = <<"b:string='x'", "a:u32='1'">>

\* The state of PutDeploy::run.
RunStarted == pc \notin {"get_matches", "usage_error"}

PutDeployInvoked == Len(put_deploy_calls) > 0

OtherPaymentOptions ==
    {"payment_path", "payment_hash", "payment_name", "payment_package_hash",
     "payment_package_name", "payment_arg", "payment_args_complex",
     "payment_entry_point", "payment_version"}

PaymentAmountWithOther(cl) ==
    /\ IsPresent(cl, "payment_amount")
    /\ \E arg \in OtherPaymentOptions : IsPresent(cl, arg)

\* C12 (as claimed): a command line that gives payment-amount together with
\* any other payment option is rejected: payment_str_params never produces
\* payment parameters from it and put_deploy is never invoked with them.
C12_PaymentAmountExclusive ==
    PaymentAmountWithOther(command_line[1]) =>
        /\ payment_params = NotCalled
        /\ ~PutDeployInvoked

\* C13: on a command line clap accepted, neither session_str_params nor
\* payment_str_params, called from run, panics.
C13_ResolversNeverPanic ==
    RunStarted =>
        /\ session_params.outcome # "panicked"
        /\ payment_params.outcome # "panicked"

\* Both resolvers returned in run on an accepted command line, each from
\* the one source option given.
C13_Witness ==
    /\ pc = "put_deploy"
    /\ SessionReturned
    /\ PaymentReturned
    /\ Cardinality(PresentIn(SessionSource(matches))) = 1
    /\ Cardinality(PresentIn(PaymentSource(matches))) = 1

\* C15: when reading the session account fails, run returns that error and
\* put_deploy is not invoked; put_deploy is invoked at most once, and an
\* error it answers is run's result, unchanged.
C15_ErrorsReturned ==
    /\ session_account.outcome = "error" =>
         /\ pc = "returned"
         /\ run_result = session_account
         /\ ~PutDeployInvoked
    /\ Len(put_deploy_calls) <= 1
    /\ (PutDeployInvoked /\ put_deploy_calls[1].answer.outcome = "error") =>
         run_result = put_deploy_calls[1].answer

\* run returned the FailedToParsePublicKey error of the session account
\* without invoking put_deploy.
C15_Witness ==
    /\ pc = "returned"
    /\ session_account.outcome = "error"
    /\ session_account.error.variant = "FailedToParsePublicKey"
    /\ run_result = session_account
    /\ ~PutDeployInvoked

\* C14: a Serialization error becomes CliError::Core wrapping the same
\* bytesrepr error, a Type mismatch becomes CliError::InvalidCLValue with the
\* text of that mismatch, and no CLValueError becomes any other variant.
C14_CLValueErrorPropagated ==
    pc = "converted" =>
        LET error     == cl_value_error[1]
            converted == cli_error.value
        IN  /\ cli_error.outcome = "returned"
            /\ converted.variant \in {"Core", "InvalidCLValue"}
            /\ error.variant = "Serialization" =>
                 /\ converted.variant = "Core"
                 /\ converted.error.variant = "ToBytesError"
                 /\ converted.error.error = error.error
            /\ error.variant = "Type" =>
                 /\ converted.variant = "InvalidCLValue"
                 /\ converted.message = <<"Expected ", error.mismatch.expected,
                                          " but found ", error.mismatch.found>>

\* A mismatch (expected U8, found String) was converted to InvalidCLValue.
C14_Witness ==
    /\ pc = "converted"
    /\ cl_value_error = Some([ variant |-> "Type",
                               mismatch |-> [ expected |-> "U8", found |-> "String" ] ])
    /\ cli_error.value.variant = "InvalidCLValue"

\* The tokenizer has answered for the raw argument.
Tokenized == tokens.outcome # "not_called"

\* The encoder has answered for the tokenized triple.
Encoded == typed_arg.outcome # "not_called"

\* The largest value of each integer type, as a decimal literal.
MaxLiteral ==
    [ u8 |-> <<"2","5","5">>,
      u32 |-> <<"4","2","9","4","9","6","7","2","9","5">>,
      u64 |-> <<"1","8","4","4","6","7","4","4","0","7","3","7","0","9","5",
                "5","1","6","1","5">>,
      u128 |-> <<"3","4","0","2","8","2","3","6","6","9","2","0","9","3","8",
                "4","6","3","4","6","3","3","7","4","6","0","7","4","3","1",
                "7","6","8","2","1","1","4","5","5">>,
      u256 |-> <<"1","1","5","7","9","2","0","8","9","2","3","7","3","1","6",
                "1","9","5","4","2","3","5","7","0","9","8","5","0","0","8",
                "6","8","7","9","0","7","8","5","3","2","6","9","9","8","4",
                "6","6","5","6","4","0","5","6","4","0","3","9","4","5","7",
                "5","8","4","0","0","7","9","1","3","1","2","9","6","3","9",
                "9","3","5">>,
      u512 |-> <<"1","3","4","0","7","8","0","7","9","2","9","9","4","2","5",
                "9","7","0","9","9","5","7","4","0","2","4","9","9","8","2",
                "0","5","8","4","6","1","2","7","4","7","9","3","6","5","8",
                "2","0","5","9","2","3","9","3","3","7","7","7","2","3","5",
                "6","1","4","4","3","7","2","1","7","6","4","0","3","0","0",
                "7","3","5","4","6","9","7","6","8","0","1","8","7","4","2",
                "9","8","1","6","6","9","0","3","4","2","7","6","9","0","0",
                "3","1","8","5","8","1","8","6","4","8","6","0","5","0","8",
                "5","3","7","5","3","8","8","2","8","1","1","9","4","6","5",
                "6","9","9","4","6","4","3","3","6","4","9","0","0","6","0",
                "8","4","0","9","5">>,
      i32 |-> <<"2","1","4","7","4","8","3","6","4","7">>,
      i64 |-> <<"9","2","2","3","3","7","2","0","3","6","8","5","4","7","7",
                "5","8","0","7">> ]

\* The magnitude of the smallest value of each signed type.
MinMagnitudeLiteral ==
    [ i32 |-> <<"2","1","4","7","4","8","3","6","4","8">>,
      i64 |-> <<"9","2","2","3","3","7","2","0","3","6","8","5","4","7","7",
                "5","8","0","8">> ]

\* A decimal literal of the type: digits, after a minus sign for a signed
\* type only.
IsDecimalLiteral(tag, text) ==
    LET signed == tag \in SignedTags /\ text # << >> /\ text[1] = "-"
        digits == IF signed THEN Tail(text) ELSE text
    IN  digits # << >> /\ \A i \in DOMAIN digits : digits[i] \in {Digits[k] : k \in DOMAIN Digits}

\* The digits without leading zeros.
RECURSIVE StripZeros(_)
StripZeros(digits) ==
    IF digits # << >> /\ Head(digits) = "0" THEN StripZeros(Tail(digits)) ELSE digits

\* a <= b, for digit sequences without leading zeros.
DecimalLeq(a, b) ==
    \/ Len(a) < Len(b)
    \/ /\ Len(a) = Len(b)
       /\ \/ a = b
          \/ \E i \in 1..Len(a) :
               /\ \A j \in 1..(i - 1) : a[j] = b[j]
               /\ DigitValue(a[i]) < DigitValue(b[i])

\* The value of the literal lies within the range of the type.
InRange(tag, text) ==
    IF tag \in SignedTags /\ text[1] = "-"
    THEN DecimalLeq(StripZeros(Tail(text)), MinMagnitudeLiteral[tag])
    ELSE DecimalLeq(StripZeros(text), MaxLiteral[tag])

\* C17: a decimal literal given for an integer type is encoded exactly when
\* its value lies within the type's range, and is refused with InvalidNumber
\* otherwise (u8: 255 in, 256 out; u128: 2^128 - 1 in, 2^128 out).
C17_NumericWidthLimits ==
    (Encoded /\ ~tokens.value.is_null) =>
        \A tag \in NumericTags :
            (/\ tokens.value.type_tag_str = TypeTagText[tag]
             /\ IsDecimalLiteral(tag, tokens.value.value_str)) =>
                IF InRange(tag, tokens.value.value_str)
                THEN /\ typed_arg.outcome = "ok"
                     /\ typed_arg.value.type_tag = [ optional |-> FALSE, tag |-> tag ]
                ELSE /\ typed_arg.outcome = "error"
                     /\ typed_arg.error.kind = "InvalidNumber"

\* 2^128 given as a u128 was refused with InvalidNumber.
C17_Witness ==
    /\ Encoded
    /\ tokens.value.type_tag_str = TypeTagText["u128"]
    /\ tokens.value.value_str =
                      <<"3","4","0","2","8","2","3","6","6","9","2","0",
                          "9","3","8","4","6","3","4","6","3","3","7","4",
                          "6","0","7","4","3","1","7","6","8","2","1","1",
                          "4","5","6">>
    /\ typed_arg.outcome = "error"
    /\ typed_arg.error.kind = "InvalidNumber"

\* C18: NAME:TYPE='VALUE', with no ':' or '=' in NAME and TYPE, is split
\* into (NAME, TYPE, VALUE), also when VALUE holds ':' or '='.
C18_SplitOnFirstDelimiters ==
    Tokenized =>
        \A name \in ArgNames, type \in TypeTexts, value \in ValueTexts :
            (/\ Len(raw_arg[1]) = Len(name) + Len(type) + Len(value) + 4
             /\ raw_arg[1] = FormatArg(name, type, value)) =>
                tokens = Ok([ name |-> name, type_tag_str |-> type,
                              value_str |-> value, is_null |-> FALSE ])

\* amount:string='p:q=r' was split into amount, string and p:q=r.
C18_Witness ==
    /\ Tokenized
    /\ raw_arg = Some(FormatArg(<<"a","m","o","u","n","t">>, TypeTagText["string"],
                                <<"p",":","q","=","r">>))
    /\ tokens.outcome = "ok"
    /\ tokens.value.value_str = <<"p",":","q","=","r">>

\* No ':' occurs in the raw argument.
ColonMissing(raw) == \A i \in DOMAIN raw : raw[i] # Colon

\* No '=' occurs in the raw argument.
EqualsMissing(raw) == \A i \in DOMAIN raw : raw[i] # Equals

\* The text after the first '=' (which follows a ':') opens with a quote
\* and does not close with one, or closes with one it did not open.
QuotesUnbalanced(raw) ==
    \E e \in DOMAIN raw :
        /\ raw[e] = Equals
        /\ \A j \in 1..(e - 1) : raw[j] # Equals
        /\ \E c \in 1..(e - 1) : raw[c] = Colon
        /\ e < Len(raw)
        /\ \/ Len(raw) = e + 1 /\ raw[Len(raw)] = Quote
           \/ (raw[e + 1] = Quote) # (raw[Len(raw)] = Quote)

\* C19: a raw argument with no ':', with no '=', or with unbalanced quotes
\* is refused with MalformedArgument: an error is returned, nothing panics,
\* and no triple is handed to the encoder.
C19_MalformedArgument ==
    (/\ Tokenized
     /\ \/ ColonMissing(raw_arg[1])
        \/ EqualsMissing(raw_arg[1])
        \/ QuotesUnbalanced(raw_arg[1])) =>
        /\ tokens.outcome = "error"
        /\ tokens.error.kind = "MalformedArgument"
        /\ pc = "arg_failed"
        /\ typed_arg = NotCalled

\* a:u8='a:b (the closing quote missing) was refused with MalformedArgument.
C19_Witness ==
    /\ pc = "arg_failed"
    /\ raw_arg = Some(<<"a",":","u","8","=","'","a",":","b">>)
    /\ QuotesUnbalanced(raw_arg[1])
    /\ tokens.error.kind = "MalformedArgument"

\* The type text is the optional form of tag.
IsOptionalOf(type_tag_str, tag) == type_tag_str = OptionalPrefix \o TypeTagText[tag]

\* C20: for an optional type, null encodes to none whatever the inner type;
\* any other value encodes as the inner type's rule encodes it, wrapped as
\* some, and a value the inner rule refuses is that error, never none.
C20_OptionalWrapper ==
    Encoded =>
        \A tag \in SimpleTypeTags :
            IsOptionalOf(tokens.value.type_tag_str, tag) =>
                LET inner == decode_value(tag, tokens.value.value_str)
                    type_tag == [ optional |-> TRUE, tag |-> tag ]
                IN  IF tokens.value.is_null
                    THEN typed_arg = Ok(TypedArg(tokens.value.name, type_tag, NoneValue))
                    ELSE IF inner.outcome = "ok"
                    THEN typed_arg = Ok(TypedArg(tokens.value.name, type_tag,
                                                 [ option |-> "some", value |-> inner.value ]))
                    ELSE /\ typed_arg.outcome = "error"
                         /\ typed_arg = inner

\* amount:opt_u512=null was encoded as none.
C20_Witness ==
    /\ Encoded
    /\ tokens.value.is_null
    /\ IsOptionalOf(tokens.value.type_tag_str, "u512")
    /\ typed_arg.outcome = "ok"
    /\ typed_arg.value.value = NoneValue

\* C21: put_deploy is invoked at most once in a run, and only after
\* session_str_params and then payment_str_params have each returned one
\* value; the call carries exactly that session and that payment value.
C21_PutDeployOnceAfterBoth ==
    /\ Len(put_deploy_calls) <= 1
    /\ PaymentCalled => SessionReturned
    /\ (RunStarted /\ pc = "put_deploy") => (SessionReturned /\ PaymentReturned)
    /\ PutDeployInvoked =>
         /\ SessionReturned
         /\ PaymentReturned
         /\ put_deploy_calls[1].session = session_params.value
         /\ put_deploy_calls[1].payment = payment_params.value
         /\ pc = "returned"

\* run completed with one put_deploy call, made with the transfer session
\* and the standard payment the two resolvers returned.
C21_Witness ==
    /\ pc = "returned"
    /\ Len(put_deploy_calls) = 1
    /\ put_deploy_calls[1].session.variant = "Transfer"
    /\ put_deploy_calls[1].payment.variant = "StandardPayment"
    /\ run_result.outcome = "ok"

\* The session account has been read.
SessionAccountRead == session_account.outcome # "not_called"

\* The value sealed_public_key::get works on: the argument, or the empty
\* string when the optional argument is absent.
SessionAccountValue ==
    IF matches.session_account = None THEN "" ELSE matches.session_account[1]

IsReadablePemKeyFile(path) ==
    path \in DOMAIN FileSystem /\ FileSystem[path].pem_key # None

IsReadableTextFile(path) == path \in DOMAIN FileSystem

\* C22: the value is tried as a public-key PEM file (the key's hex form is
\* returned), then as a text file (its contents are returned once they
\* parse as a hex public key), and else is returned as it is, the empty
\* string when the argument is absent.
C22_PublicKeySourceOrder ==
    SessionAccountRead =>
        IF IsReadablePemKeyFile(SessionAccountValue)
        THEN /\ session_account.outcome = "ok"
             /\ session_account.value = FileSystem[SessionAccountValue].pem_key[1]
        ELSE IF IsReadableTextFile(SessionAccountValue)
        THEN FileSystem[SessionAccountValue].text \in HexPublicKeys =>
                /\ session_account.outcome = "ok"
                /\ session_account.value = FileSystem[SessionAccountValue].text
        ELSE /\ session_account.outcome = "ok"
             /\ session_account.value = SessionAccountValue

\* --session-account public_key.pem: the file is a PEM key file (and a
\* readable text file too), and the key's hex form was returned.
C22_Witness ==
    /\ SessionAccountRead
    /\ matches.session_account = Some("public_key.pem")
    /\ session_account.outcome = "ok"
    /\ session_account.value = "01aa"

\* C23: when the value names a readable text file (no PEM key file) whose
\* contents do not parse as a hex public key, the call returns
\* FailedToParsePublicKey with context "get public key", and not the value.
C23_UnparsableKeyFileFails ==
    (/\ SessionAccountRead
     /\ ~IsReadablePemKeyFile(SessionAccountValue)
     /\ IsReadableTextFile(SessionAccountValue)
     /\ FileSystem[SessionAccountValue].text \notin HexPublicKeys) =>
        /\ session_account.outcome = "error"
        /\ session_account.error.variant = "FailedToParsePublicKey"
        /\ session_account.error.context = "get public key"

\* --session-account notes.txt, a text file that holds no key, was answered
\* with FailedToParsePublicKey.
C23_Witness ==
    /\ SessionAccountRead
    /\ matches.session_account = Some("notes.txt")
    /\ FileSystem["notes.txt"].text \notin HexPublicKeys
    /\ session_account.outcome = "error"
    /\ session_account.error.context = "get public key"

\* C24: secret_key::get and chain_name::get are called only with their
\* argument present, so neither panics; when show-arg-examples is given,
\* run exits without calling either.
C24_RequiredGettersNeverPanic ==
    RunStarted =>
        /\ "secret_key" \in args_read =>
             /\ matches.secret_key # None
             /\ secret_key_get(matches).outcome = "returned"
        /\ "chain_name" \in args_read =>
             /\ matches.chain_name # None
             /\ chain_name_get(matches).outcome = "returned"
        /\ matches.show_arg_examples = Some(TRUE) =>
             /\ "secret_key" \notin args_read
             /\ "chain_name" \notin args_read

\* Both getters were called, and returned, on an accepted command line.
C24_Witness ==
    /\ pc = "session_account"
    /\ {"secret_key", "chain_name"} \subseteq args_read
    /\ secret_key_get(matches).outcome = "returned"
    /\ chain_name_get(matches).outcome = "returned"

\* The params carry both simple args and a complex-args path.
CarriesBothArgStyles(params) ==
    params.args_simple # << >> /\ params.args_complex # ""

\* C25: on an accepted command line the simple args and the complex-args
\* file are not both given, for the session or for the payment, and the
\* params a resolver returns never carry both.
C25_OneArgStyle ==
    RunStarted =>
        /\ ~(IsPresent(matches, "session_arg") /\ IsPresent(matches, "session_args_complex"))
        /\ ~(IsPresent(matches, "payment_arg") /\ IsPresent(matches, "payment_args_complex"))
        /\ SessionReturned => ~CarriesBothArgStyles(session_params.value)
        /\ (PaymentReturned /\ payment_params.value.variant # "StandardPayment") =>
             ~CarriesBothArgStyles(payment_params.value)

\* session_str_params returned params with simple args and no complex-args
\* path, on an accepted command line.
C25_Witness ==
    /\ RunStarted
    /\ SessionReturned
    /\ session_params.value.args_simple # << >>
    /\ session_params.value.args_complex = ""

\* C26: with the payment amount present, payment_str_params returns the
\* standard payment of that amount and nothing else: the same value as on
\* the input without payment args, entry point and version.
C26_AmountAlone ==
    (PaymentCalled /\ matches.payment_amount # None) =>
        /\ payment_params =
             Returned([ variant |-> "StandardPayment", amount |-> matches.payment_amount[1] ])
        /\ payment_params =
             payment_str_params([matches EXCEPT !.payment_arg = << >>,
                                                !.payment_args_complex = None,
                                                !.payment_entry_point = None,
                                                !.payment_version = None])

\* payment_str_params returned the standard payment on an input that also
\* holds payment args and an entry point.
C26_Witness ==
    /\ PaymentReturned
    /\ matches.payment_amount # None
    /\ matches.payment_arg # << >>
    /\ matches.payment_entry_point # None
    /\ payment_params.value.variant = "StandardPayment"

\* C27: get-block prints its response at level 1 when 0 was requested and
\* at the requested level otherwise, so never below 1; the request is sent
\* once, before the level is raised, with the level the user requested.
C27_PrintedAtLeastLevelOne ==
    /\ Len(get_block_calls) <= 1
    /\ Len(get_block_calls) = 1 =>
         get_block_calls[1].verbosity_level = matches.verbose
    /\ pc = "get_block_raise" => verbosity_level = Some(matches.verbose)
    /\ printed # None =>
         /\ Len(get_block_calls) = 1
         /\ printed[1].level >= 1
         /\ printed[1].level = (IF matches.verbose = 0 THEN 1 ELSE matches.verbose)
         /\ printed[1].response = get_block_calls[1].answer.value

\* Without -v the request went out at level 0 and the response was printed
\* at level 1.
C27_Witness ==
    /\ pc = "get_block_done"
    /\ matches.verbose = 0
    /\ get_block_calls[1].verbosity_level = 0
    /\ printed # None
    /\ printed[1].level = 1

====
